---- MODULE Spec2Model ----
(***************************************************************************)
(* stem.control.BaseController: a facade over one stem.socket.ControlSocket *)
(*                                                                         *)
(* The controller's methods are translated from src/stem/control.py.  The  *)
(* ControlSocket they forward to lives in stem/socket.py; its behaviour is *)
(* taken from the design document (sections 3 to 5 and 7) and every        *)
(* definition that does so is marked "(socket)".                           *)
(*                                                                         *)
(* The socket with the transport, the wire and the listeners' observations *)
(* form one record, sys, that the socket's operations map to a new record  *)
(* and an outcome (a returned value or a raised error).  The controller's  *)
(* methods are functions of the same shape built from the socket's, as the *)
(* source builds them.                                                     *)
(***************************************************************************)
EXTENDS Integers, Sequences, FiniteSets, TLC

\* ------------------------------------------------------------------ bounds
MaxConnects == 2      \* transports opened over a run
MaxArrive == 2        \* messages arriving over a run of concurrent readers
MaxSends == 2         \* send() calls over a run of concurrent writers
MaxLen == 1           \* length of a message handed to send() there
MaxTraffic == 1       \* arrivals, and send() calls, over any other run
MaxAdds == 2          \* add_status_listener calls for a callback between removals
NThreads == 3         \* concurrent readers or writers
NCallers == 2         \* threads of any other run

Threads == 1 .. NThreads
Callers == 1 .. NCallers
Controllers == {"c1", "c2"}
Callbacks == {"cb1", "cb2"}
\* the order in which the registry is walked
Order == <<"cb1", "cb2">>
\* what a callback does when it is invoked
Behaviours == {"ok", "raises", "hangs"}

\* ------------------------------------------------------------- the errors
ConnectionError == "ConnectionError"
AlreadyConnectedError == "AlreadyConnectedError"
ConnectionClosedError == "ConnectionClosedError"
TransportError == "TransportError"
AttributeError == "AttributeError"
\* whatever a status listener's callback raises
CallbackError == "CallbackError"

\* An outcome of a call: a raised error, or a returned value.  None is 0, a
\* boolean is 0 or 1, a message is its arrival number (1, 2, ...).
Raise(e) == [exc |-> e, val |-> 0]
Return(v) == [exc |-> "", val |-> v]
None == Return(0)
Bool(b) == Return(IF b THEN 1 ELSE 0)
\* The call has not finished: the thread stays inside it.
Blocked == [exc |-> "blocked", val |-> 0]
\* The call never finishes: the thread is inside a callback that does not return.
Stuck == [exc |-> "stuck", val |-> 0]
IsValue(out) == out.exc = ""

VARIABLES
  attrs,     \* attrs[c]: the instance attributes of controller c (name -> value)
  sys,       \* the socket, its transport, the wire and the listeners' counts
  call,      \* call[t]: the blocking call thread t is inside of, or Idle
  last,      \* the call that finished last: its thread, operation and outcome
  hist,      \* the last lifecycle event the callers were told of
  returned,  \* the messages recv() handed to its callers, in order of return
  calls,     \* the send() calls in the order they were made: <<len, raw>>
  adds       \* adds[cb]: the add_status_listener(cb) calls since cb's last removal

vars == <<attrs, sys, call, last, hist, returned, calls, adds>>

\* A thread's blocking call: the operation, the controller it was made on, the
\* transport handle a recv() waits on, the bytes a send() has still to write.
Idle == [op |-> "idle", c |-> "", h |-> 0, data |-> <<>>]
InCall(op, c, h, data) == [op |-> op, c |-> c, h |-> h, data |-> data]
NoAttrs == [n \in {} |-> ""]
TheSocket == "socket"

\* ------------------------------------------------ the listeners (socket)
\* The registry maps a callback to its dispatch mode; notifying dispatches the
\* new state to each registered callback in turn.
Registered(s) == {cb \in Callbacks : s.listeners[cb] # "unregistered"}

\* the callback runs on the calling thread
Invoke(s, cb) ==
  IF s.behaviour[cb] = "raises" THEN Raise(CallbackError)
  ELSE IF s.behaviour[cb] = "hangs" THEN Stuck
  ELSE None

\* a boundary that lets the callback's failure through
Caught_not(out) == out

\* the notification boundary: what an inline callback raises is caught and
\* discarded
Caught(out) == IF out = Raise(CallbackError) THEN None ELSE out

\* One dispatch, as the notifying thread sees it.  Spawn: the callback gets a
\* task of its own and the caller goes on at once.  Inline: the callback runs
\* on the calling thread.
Dispatch(s, cb) ==
  IF s.listeners[cb] = "spawn" THEN None ELSE Caught(Invoke(s, cb))

\* A notification walks the registry in order and dispatches to each
\* registered callback; it goes no further than a dispatch that does not
\* return to it.  Reaches: the walk gets to callback cb.
Halts(s, cb) == s.listeners[cb] # "unregistered" /\ Dispatch(s, cb) # None
Pos(cb) == CHOOSE i \in 1 .. Len(Order) : Order[i] = cb
Reaches(s, cb) ==
  /\ s.listeners[cb] # "unregistered"
  /\ \A j \in 1 .. Pos(cb) - 1 : ~Halts(s, Order[j])

\* what the notifying thread gets from a notification
Notified(s) ==
  IF \E cb \in Callbacks : Halts(s, cb) /\ Reaches(s, cb)
  THEN Dispatch(s, CHOOSE cb \in Callbacks : Halts(s, cb) /\ Reaches(s, cb))
  ELSE None

\* The socket after a notification of `state`: each callback reached was
\* dispatched to once; a spawned task whose callback returns is gone at once,
\* any other stays.
Notify(s, state) ==
  [s EXCEPT
     !.notes = [cb \in Callbacks |->
        IF Reaches(s, cb) THEN [s.notes[cb] EXCEPT ![state] = @ + 1] ELSE s.notes[cb]],
     !.tasks = [cb \in Callbacks |->
        IF s.listeners[cb] = "spawn" /\ s.behaviour[cb] # "ok" /\ Reaches(s, cb)
        THEN s.tasks[cb] + 1 ELSE s.tasks[cb]]]

\* CONNECTED -> CLOSED: the transport is closed and forgotten, the flag is
\* cleared, what the transport had buffered is gone, listeners are told.
Disconnect(s) ==
  Notify([s EXCEPT !.alive = FALSE,
                   !.handle = 0,
                   !.open = s.open \ {s.handle},
                   !.lost = s.lost \cup {s.inbox[i] : i \in 1 .. Len(s.inbox)},
                   !.inbox = <<>>], "closed")

\* ----------------------------------------------- the operations (socket)
Sock_is_alive(s) == [st |-> s, out |-> Bool(s.alive)]

Sock_connect(s, reachable) ==
  IF s.alive THEN [st |-> s, out |-> Raise(AlreadyConnectedError)]
  ELSE IF ~reachable THEN [st |-> s, out |-> Raise(ConnectionError)]
  ELSE [st |-> Notify([s EXCEPT !.alive = TRUE,
                                !.handle = s.opened + 1,
                                !.opened = s.opened + 1,
                                !.open = s.open \cup {s.opened + 1}], "connected"),
        out |-> Notified(s)]

Sock_close(s) ==
  IF s.alive THEN [st |-> Disconnect(s), out |-> Notified(s)]
  ELSE [st |-> s, out |-> None]

Sock_add_status_listener(s, callback, spawn) ==
  [st |-> [s EXCEPT !.listeners[callback] = IF spawn THEN "spawn" ELSE "inline"],
   out |-> None]

Sock_remove_status_listener(s, callback) ==
  [st |-> [s EXCEPT !.listeners[callback] = "unregistered"], out |-> None]

\* recv() of a reader waiting on transport h.  ev is what the transport does:
\* "data" (it hands over what has arrived) or the error of a failed read.
Sock_recv(s, h, ev) ==
  IF ~s.alive \/ s.handle # h THEN [st |-> s, out |-> Raise(ConnectionClosedError)]
  ELSE IF ev # "data"
       THEN [st |-> Disconnect(s),
             out |-> IF Notified(s) = None THEN Raise(ev) ELSE Notified(s)]
  ELSE IF s.inbox # <<>>
       THEN [st |-> [s EXCEPT !.inbox = Tail(s.inbox)], out |-> Return(Head(s.inbox))]
  ELSE [st |-> s, out |-> Blocked]

\* What send() writes for message id of len bytes: the bytes as they are when
\* raw, else the bytes and the terminator (byte 0).
Format(id, len, raw) ==
  [j \in 1 .. len |-> <<id, j>>] \o (IF raw THEN <<>> ELSE << <<id, 0>> >>)

\* send() is entered: a closed socket fails at once, else the caller queues
\* for the write path.
Sock_send(s, t, id, len, raw) ==
  IF ~s.alive THEN [st |-> s, out |-> Raise(ConnectionClosedError), data |-> <<>>]
  ELSE [st |-> [s EXCEPT !.sendq = Append(s.sendq, t)], out |-> Blocked,
        data |-> Format(id, len, raw)]

Release(s, t) == [s EXCEPT !.sendq = SelectSeq(s.sendq, LAMBDA u : u # t)]

\* a write path that reports a failed write before it looks at the flag
Sock_send_write_racy(s, t, data, ok) ==
  IF s.sendq = <<>> \/ Head(s.sendq) # t THEN [st |-> s, out |-> Blocked, data |-> data]
  ELSE IF ~ok
       THEN [st |-> Disconnect(Release(s, t)),
             out |-> IF Notified(s) = None THEN Raise(TransportError) ELSE Notified(s),
             data |-> <<>>]
  ELSE IF ~s.alive
       THEN [st |-> Release(s, t), out |-> Raise(ConnectionClosedError), data |-> <<>>]
  ELSE LET s1 == [s EXCEPT !.wire = Append(s.wire, Head(data))] IN
       IF Len(data) = 1 THEN [st |-> Release(s1, t), out |-> None, data |-> <<>>]
       ELSE [st |-> s1, out |-> Blocked, data |-> Tail(data)]

\* The caller at the head of the queue owns the write path and writes the
\* next byte; ok is whether the transport accepts it.
Sock_send_write(s, t, data, ok) ==
  IF s.sendq = <<>> \/ Head(s.sendq) # t THEN [st |-> s, out |-> Blocked, data |-> data]
  ELSE IF ~s.alive
       THEN [st |-> Release(s, t), out |-> Raise(ConnectionClosedError), data |-> <<>>]
  ELSE IF ~ok
       THEN [st |-> Disconnect(Release(s, t)),
             out |-> IF Notified(s) = None THEN Raise(TransportError) ELSE Notified(s),
             data |-> <<>>]
  ELSE LET s1 == [s EXCEPT !.wire = Append(s.wire, Head(data))] IN
       IF Len(data) = 1 THEN [st |-> Release(s1, t), out |-> None, data |-> <<>>]
       ELSE [st |-> s1, out |-> Blocked, data |-> Tail(data)]

\* _make_socket(): the transport is built for the endpoint; the socket's state
\* is as before
Sock_make_socket(s) == [st |-> s, out |-> None]

\* ------------------------------------------- BaseController (control.py)
\* stem.socket.ControlPort(control_addr, control_port) and
\* stem.socket.ControlSocketFile(socket_path), as from_port and
\* from_socket_file document them: the socket is made and connected, or the
\* attempt's error is raised ("if we're unable to establish a connection").
ControlPort(s, reachable) == Sock_connect(s, reachable)
ControlSocketFile(s, reachable) == Sock_connect(s, reachable)

\* Reading an instance attribute: the value, or AttributeError.
HasAttr(c, name) == name \in DOMAIN attrs[c]
Constructed(c) == HasAttr(c, "_socket")

\* A statement that calls and does not return the value: errors propagate,
\* the value is dropped.
Discard(res) == IF IsValue(res.out) THEN [res EXCEPT !.out = None] ELSE res

\* __init__: stores the socket and injects the back-reference into it.
BC_init_attrs(c, control_socket) == [n \in {"_socket"} |-> control_socket]
BC_init_socket(c, s) == [s EXCEPT !.get_self = c]

\* from_port() that catches the connection error and wraps the socket as it is
BC_from_port_unconnected(c, s, reachable) ==
  LET control_port == ControlPort(s, reachable) IN
    [st |-> BC_init_socket(c, control_port.st), out |-> Return(1),
     attrs |-> BC_init_attrs(c, TheSocket)]

\* from_port(control_addr, control_port): the socket, then the controller
\* around it; an error of the first leaves nothing built
BC_from_port(c, s, reachable) ==
  LET control_port == ControlPort(s, reachable) IN
    IF ~IsValue(control_port.out)
    THEN [st |-> s, out |-> control_port.out, attrs |-> NoAttrs]
    ELSE [st |-> BC_init_socket(c, control_port.st), out |-> Return(1),
          attrs |-> BC_init_attrs(c, TheSocket)]

BC_from_socket_file(c, s, reachable) ==
  LET control_socket == ControlSocketFile(s, reachable) IN
    IF ~IsValue(control_socket.out)
    THEN [st |-> s, out |-> control_socket.out, attrs |-> NoAttrs]
    ELSE [st |-> BC_init_socket(c, control_socket.st), out |-> Return(1),
          attrs |-> BC_init_attrs(c, TheSocket)]

\* send() with the socket's errors caught and dropped
BC_send_swallow(c, s, t, id, len, raw) ==
  LET res == Sock_send(s, t, id, len, raw) IN
    IF res.out = Blocked THEN res ELSE [res EXCEPT !.out = None]

\* send() forwarding the message without the raw argument
BC_send_noraw(c, s, t, id, len, raw) == Discard(Sock_send(s, t, id, len, FALSE))

\* send() whose forwarded call is wrapped in a handler that drops the error
BC_send_write_swallow(c, s, t, data, ok) ==
  LET res == Sock_send_write(s, t, data, ok) IN
    IF res.out = Blocked THEN res ELSE [res EXCEPT !.out = None]

\* send() under a lock of the controller that a waiting recv() holds
BC_send_write_locked(c, s, t, data, ok) ==
  IF \E r \in DOMAIN call : call[r].op = "recv"
  THEN [st |-> s, out |-> Blocked, data |-> data]
  ELSE Discard(Sock_send_write(s, t, data, ok))

\* send(message, raw = False): the call, and each step of it
BC_send(c, s, t, id, len, raw) == Discard(Sock_send(s, t, id, len, raw))
BC_send_write(c, s, t, data, ok) == Discard(Sock_send_write(s, t, data, ok))

\* recv() with the socket's errors caught and None returned instead
BC_recv_swallow(c, s, h, ev) ==
  LET res == Sock_recv(s, h, ev) IN
    IF IsValue(res.out) \/ res.out = Blocked THEN res ELSE [res EXCEPT !.out = None]

\* recv() without the return statement
BC_recv_noreturn(c, s, h, ev) == Discard(Sock_recv(s, h, ev))

BC_recv(c, s, h, ev) == Sock_recv(s, h, ev)

\* is_alive() answering with the bound method instead of calling it
BC_is_alive_uncalled(c, s) == [st |-> s, out |-> Bool(TRUE)]

BC_is_alive(c, s) == Sock_is_alive(s)

\* connect() naming the socket's method without calling it
BC_connect_uncalled(c, s, reachable) == [st |-> s, out |-> None]

\* connect() that closes a live connection first to open a fresh one
BC_connect_afresh(c, s, reachable) == Discard(Sock_connect(Sock_close(s).st, reachable))

BC_connect(c, s, reachable) == Discard(Sock_connect(s, reachable))

\* close() that refuses a socket that is not connected
BC_close_strict(c, s) ==
  IF Sock_is_alive(s).out = Bool(TRUE) THEN Discard(Sock_close(s))
  ELSE [st |-> s, out |-> Raise(ConnectionClosedError)]

\* close() naming the socket's method without calling it
BC_close_uncalled(c, s) == [st |-> s, out |-> None]

BC_close(c, s) == Discard(Sock_close(s))

BC_get_socket(c) == attrs[c]["_socket"]

\* add_status_listener() forwarding the callback without the spawn argument
BC_add_status_listener_default(c, s, callback, spawn) ==
  Discard(Sock_add_status_listener(s, callback, TRUE))

\* add_status_listener() that also tells the new listener the present state
BC_add_status_listener_told(c, s, callback, spawn) ==
  LET res == Sock_add_status_listener(s, callback, spawn) IN
    [st |-> [res.st EXCEPT !.notes[callback][IF s.alive THEN "connected" ELSE "closed"] = @ + 1],
     out |-> None]

\* add_status_listener() forwarding the callback as an inline listener
BC_add_status_listener_inline(c, s, callback, spawn) ==
  Discard(Sock_add_status_listener(s, callback, FALSE))

\* add_status_listener(callback, spawn = True)
DefaultSpawn == TRUE
SpawnArg(arg) == IF arg = "omitted" THEN DefaultSpawn ELSE arg = "true"

BC_add_status_listener(c, s, callback, spawn) ==
  Discard(Sock_add_status_listener(s, callback, spawn))

\* remove_status_listener() forwarding to the socket's add_status_listener
BC_remove_status_listener_as_add(c, s, callback) ==
  Discard(Sock_add_status_listener(s, callback, TRUE))

BC_remove_status_listener(c, s, callback) ==
  Discard(Sock_remove_status_listener(s, callback))

\* _make_socket(): self._control_socket._make_socket()
BC_make_socket(c, s) ==
  IF HasAttr(c, "_control_socket") THEN Discard(Sock_make_socket(s))
  ELSE [st |-> s, out |-> Raise(AttributeError)]

\* ------------------------------------------------------------ the steps
\* The call ends and its outcome is the caller's; a thread inside a callback
\* that never returns stays there.
InCallback == InCall("callback", "", 0, <<>>)

Finish(t, op, out) ==
  \E o \in {out} :
    /\ last' = IF o = Stuck THEN last
               ELSE [t |-> t, op |-> op, exc |-> o.exc, val |-> o.val]
    /\ call' = [call EXCEPT ![t] = IF o = Stuck THEN InCallback ELSE Idle]

Ready(c, t) == Constructed(c) /\ BC_get_socket(c) = TheSocket /\ call[t] = Idle

\* BaseController(control_socket) over the socket another controller owns
Construct(c) ==
  /\ ~Constructed(c)
  /\ attrs' = [attrs EXCEPT ![c] = BC_init_attrs(c, TheSocket)]
  /\ sys' = BC_init_socket(c, sys)
  /\ UNCHANGED <<call, last, hist, returned, calls, adds>>

\* BaseController.from_port(...) / from_socket_file(...): the first controller
FromPort(c, t, reachable) ==
  /\ \A d \in Controllers : ~Constructed(d)
  /\ call[t] = Idle
  /\ \E res \in {BC_from_port(c, sys, reachable)} :
       /\ sys' = res.st
       /\ attrs' = [attrs EXCEPT ![c] = res.attrs]
       /\ Finish(t, "from_port", res.out)
       /\ hist' = IF IsValue(res.out) THEN "connected" ELSE "connect failed"
  /\ UNCHANGED <<returned, calls, adds>>

FromSocketFile(c, t, reachable) ==
  /\ \A d \in Controllers : ~Constructed(d)
  /\ call[t] = Idle
  /\ \E res \in {BC_from_socket_file(c, sys, reachable)} :
       /\ sys' = res.st
       /\ attrs' = [attrs EXCEPT ![c] = res.attrs]
       /\ Finish(t, "from_socket_file", res.out)
       /\ hist' = IF IsValue(res.out) THEN "connected" ELSE "connect failed"
  /\ UNCHANGED <<returned, calls, adds>>

MakeSocket(c, t) ==
  /\ Constructed(c) /\ call[t] = Idle
  /\ \E res \in {BC_make_socket(c, sys)} :
       /\ sys' = res.st
       /\ Finish(t, "_make_socket", res.out)
  /\ UNCHANGED <<attrs, hist, returned, calls, adds>>

IsAlive(c, t) ==
  /\ Ready(c, t)
  /\ \E res \in {BC_is_alive(c, sys)} :
       /\ sys' = res.st
       /\ Finish(t, "is_alive", res.out)
  /\ UNCHANGED <<attrs, hist, returned, calls, adds>>

Connect(c, t) ==
  /\ Ready(c, t)
  /\ \E reachable \in BOOLEAN :
       /\ reachable /\ ~sys.alive => sys.opened < MaxConnects
       /\ \E res \in {BC_connect(c, sys, reachable)} :
            /\ sys' = res.st
            /\ Finish(t, "connect", res.out)
            /\ hist' = IF res.out = None THEN "connected"
                       ELSE IF res.out = Raise(ConnectionError) THEN "connect failed"
                       ELSE hist
  /\ UNCHANGED <<attrs, returned, calls, adds>>

Close(c, t) ==
  /\ Ready(c, t)
  /\ \E res \in {BC_close(c, sys)} :
       /\ sys' = res.st
       /\ Finish(t, "close", res.out)
       /\ hist' = IF res.out # None THEN hist
                  ELSE IF hist = "connected" THEN "closed"
                  ELSE IF hist = "closed" THEN "closed twice"
                  ELSE hist
  /\ UNCHANGED <<attrs, returned, calls, adds>>

AddListener(c, t, cb) ==
  /\ Ready(c, t)
  /\ adds[cb] < MaxAdds
  /\ adds' = [adds EXCEPT ![cb] = @ + 1]
  /\ \E arg \in {"omitted", "true", "false"} :
       \E res \in {BC_add_status_listener(c, sys, cb, SpawnArg(arg))} :
         /\ sys' = res.st
         /\ Finish(t, "add_status_listener", res.out)
  /\ UNCHANGED <<attrs, hist, returned, calls>>

RemoveListener(c, t, cb) ==
  /\ Ready(c, t)
  /\ adds' = [adds EXCEPT ![cb] = 0]
  /\ \E res \in {BC_remove_status_listener(c, sys, cb)} :
       /\ sys' = res.st
       /\ Finish(t, "remove_status_listener", res.out)
  /\ UNCHANGED <<attrs, hist, returned, calls>>

Received(out) == IF IsValue(out) /\ out.val > 0 THEN <<out.val>> ELSE <<>>

\* recv() is called: it returns at once when the socket is closed or a message
\* has arrived, else the thread waits.
RecvCall(c, t) ==
  /\ Ready(c, t)
  /\ \E res \in {BC_recv(c, sys, sys.handle, "data")} :
       IF res.out = Blocked
       THEN /\ call' = [call EXCEPT ![t] = InCall("recv", c, sys.handle, <<>>)]
            /\ UNCHANGED <<sys, last, returned>>
       ELSE /\ sys' = res.st
            /\ Finish(t, "recv", res.out)
            /\ returned' = returned \o Received(res.out)
  /\ UNCHANGED <<attrs, hist, calls, adds>>

\* a waiting recv() returns: a message, or the socket was closed meanwhile
RecvReturn(t) ==
  /\ call[t].op = "recv"
  /\ \E res \in {BC_recv(call[t].c, sys, call[t].h, "data")} :
       /\ res.out # Blocked
       /\ sys' = res.st
       /\ Finish(t, "recv", res.out)
       /\ returned' = returned \o Received(res.out)
  /\ UNCHANGED <<attrs, hist, calls, adds>>

\* the read of a waiting recv() fails
RecvFail(t) ==
  /\ call[t].op = "recv"
  /\ sys.alive /\ sys.handle = call[t].h
  /\ \E e \in {TransportError, ConnectionClosedError} :
       \E res \in {BC_recv(call[t].c, sys, call[t].h, e)} :
         /\ sys' = res.st
         /\ Finish(t, "recv", res.out)
         /\ returned' = returned \o Received(res.out)
  /\ hist' = "failed"
  /\ UNCHANGED <<attrs, calls, adds>>

SendCall(c, t, maxlen, max) ==
  /\ Ready(c, t)
  /\ Len(calls) < max
  /\ \E len \in 1 .. maxlen, raw \in BOOLEAN :
       LET id == Len(calls) + 1
           res == BC_send(c, sys, t, id, len, raw) IN
         /\ sys' = res.st
         /\ calls' = Append(calls, <<len, raw>>)
         /\ IF res.out = Blocked
            THEN /\ call' = [call EXCEPT ![t] = InCall("send", c, 0, res.data)]
                 /\ UNCHANGED last
            ELSE Finish(t, "send", res.out)
  /\ UNCHANGED <<attrs, hist, returned, adds>>

SendWrite(t) ==
  /\ call[t].op = "send"
  /\ \E ok \in BOOLEAN :
       \E res \in {BC_send_write(call[t].c, sys, t, call[t].data, ok)} :
         /\ sys' = res.st
         /\ IF res.out = Blocked
            THEN /\ call' = [call EXCEPT ![t].data = res.data]
                 /\ UNCHANGED last
            ELSE Finish(t, "send", res.out)
         /\ hist' = IF res.out = Raise(TransportError) THEN "failed" ELSE hist
  /\ UNCHANGED <<attrs, returned, calls, adds>>

\* the task of a spawned callback ends by the callback raising: the failure
\* goes nowhere
TaskEnd(cb) ==
  /\ sys.tasks[cb] > 0
  /\ sys.behaviour[cb] = "raises"
  /\ sys' = [sys EXCEPT !.tasks[cb] = @ - 1]
  /\ UNCHANGED <<attrs, call, last, hist, returned, calls, adds>>

\* a complete message arrives on the open transport
Arrive(max) ==
  /\ sys.alive
  /\ sys.arrived < max
  /\ sys' = [sys EXCEPT !.arrived = @ + 1, !.inbox = Append(@, sys.arrived + 1)]
  /\ UNCHANGED <<attrs, call, last, hist, returned, calls, adds>>

\* ------------------------------------------------------------ the system
NoNotes == [state \in {"connected", "closed"} |-> 0]

\* from_port / from_socket_file: a socket, wrapped by controller c1.  The
\* socket is created unconnected or already connected.
InitSys(connected, registered) ==
  [alive |-> connected,
   handle |-> IF connected THEN 1 ELSE 0,
   opened |-> IF connected THEN 1 ELSE 0,
   open |-> IF connected THEN {1} ELSE {},
   listeners |-> [cb \in Callbacks |-> IF cb \in registered THEN "inline" ELSE "unregistered"],
   notes |-> [cb \in Callbacks |-> NoNotes],
   behaviour |-> [cb \in Callbacks |-> "ok"],
   tasks |-> [cb \in Callbacks |-> 0],
   get_self |-> "c1",
   inbox |-> <<>>,
   arrived |-> 0,
   lost |-> {},
   sendq |-> <<>>,
   wire |-> <<>>]

InitWith(states, registered) ==
  /\ attrs = [c \in Controllers |-> IF c = "c1" THEN BC_init_attrs(c, TheSocket) ELSE NoAttrs]
  /\ \E connected \in states :
       /\ sys = InitSys(connected, registered)
       /\ hist = IF connected THEN "connected" ELSE "never connected"
  /\ call = [t \in Threads \cup Callers |-> Idle]
  /\ last = [t |-> 0, op |-> "none", exc |-> "", val |-> 0]
  /\ returned = <<>>
  /\ calls = <<>>
  /\ adds = [cb \in Callbacks |-> IF cb \in registered THEN 1 ELSE 0]

\* The connection's life: the operations that act on the connection, by a
\* few callers, with one callback registered.  No message arrives: a recv()
\* on the open connection waits until the connection goes down.
Init == InitWith(BOOLEAN, {"cb1"})

Next ==
  \/ \E t \in Callers : IsAlive("c1", t)
  \/ \E t \in Callers : Connect("c1", t)
  \/ \E t \in Callers : Close("c1", t)
  \/ \E t \in Callers : RecvCall("c1", t)
  \/ \E t \in Callers : RecvReturn(t)
  \/ \E t \in Callers : RecvFail(t)
  \/ \E t \in Callers : SendCall("c1", t, 1, MaxTraffic)
  \/ \E t \in Callers : SendWrite(t)

Spec == Init /\ [][Next]_vars

\* The listeners: registration, removal and the transitions they are told of,
\* in sequence.  No message arrives and nobody else closes the socket: a
\* recv() that waits ends by its read failing.
NextListeners ==
  \/ Connect("c1", 1)
  \/ Close("c1", 1)
  \/ \E cb \in Callbacks : AddListener("c1", 1, cb)
  \/ \E cb \in Callbacks : RemoveListener("c1", 1, cb)
  \/ RecvCall("c1", 1)
  \/ RecvFail(1)

InitListeners == InitWith(BOOLEAN, {})

ListenerSpec == InitListeners /\ [][NextListeners]_vars

\* Every operation of the controller, called in sequence by one thread.
NextSequence ==
  \/ IsAlive("c1", 1)
  \/ Connect("c1", 1)
  \/ Close("c1", 1)
  \/ AddListener("c1", 1, "cb1")
  \/ RemoveListener("c1", 1, "cb1")
  \/ RecvCall("c1", 1)
  \/ RecvReturn(1)
  \/ RecvFail(1)
  \/ SendCall("c1", 1, 1, MaxTraffic)
  \/ SendWrite(1)
  \/ Arrive(MaxTraffic)

SequenceSpec == InitListeners /\ [][NextSequence]_vars

\* Concurrent readers, one registered callback.  A reader whose recv() can
\* return is scheduled eventually; nothing else is forced to happen.
InitRecv == InitWith({TRUE}, {"cb1"})

NextRecv ==
  \/ \E t \in Threads : RecvCall("c1", t)
  \/ \E t \in Threads : RecvReturn(t)
  \/ \E t \in Threads : RecvFail(t)
  \/ \E t \in Threads : Close("c1", t)
  \/ \E t \in Threads : Connect("c1", t)
  \/ Arrive(MaxArrive)

RecvSpec == InitRecv /\ [][NextRecv]_vars /\ \A t \in Threads : WF_vars(RecvReturn(t))

\* Concurrent writers on a connected socket.
NextSend ==
  \/ \E t \in Threads : SendCall("c1", t, MaxLen, MaxSends)
  \/ \E t \in Threads : SendWrite(t)
  \/ \E t \in Threads : Close("c1", t)

SendSpec == InitRecv /\ [][NextSend]_vars

\* Listeners whose callbacks return, raise or never return, registered in
\* either mode before the run, and the transitions that notify them, in
\* sequence.
Registrations == {"unregistered", "omitted", "true", "false"}

\* the socket after c1.add_status_listener(cb, ...) for each callback of Order
\* from position i on that m registers, with the spawn argument m gives
RECURSIVE Registering(_, _, _)
Registering(s, m, i) ==
  IF i > Len(Order) THEN s
  ELSE Registering(IF m[Order[i]] = "unregistered" THEN s
                   ELSE BC_add_status_listener("c1", s, Order[i], SpawnArg(m[Order[i]])).st,
                   m, i + 1)

InitNotify ==
  /\ attrs = [c \in Controllers |-> IF c = "c1" THEN BC_init_attrs(c, TheSocket) ELSE NoAttrs]
  /\ \E connected \in BOOLEAN, b \in [Callbacks -> Behaviours],
        m \in [Callbacks -> Registrations] :
       /\ sys = Registering([InitSys(connected, {}) EXCEPT !.behaviour = b], m, 1)
       /\ hist = IF connected THEN "connected" ELSE "never connected"
       /\ adds = [cb \in Callbacks |-> IF m[cb] = "unregistered" THEN 0 ELSE 1]
  /\ call = [t \in Threads \cup Callers |-> Idle]
  /\ last = [t |-> 0, op |-> "none", exc |-> "", val |-> 0]
  /\ returned = <<>>
  /\ calls = <<>>

NextNotify ==
  \/ Connect("c1", 1)
  \/ Close("c1", 1)
  \/ RecvCall("c1", 1)
  \/ RecvFail(1)
  \/ \E cb \in Callbacks : TaskEnd(cb)

NotifySpec == InitNotify /\ [][NextNotify]_vars

\* Construction: nothing is built at first.  The first controller comes from
\* a named constructor or wraps a socket made unconnected; a second one may
\* be built over the socket the first hands out.  One thread calls them.
InitConstruct ==
  /\ attrs = [c \in Controllers |-> NoAttrs]
  /\ sys = [InitSys(FALSE, {}) EXCEPT !.get_self = ""]
  /\ hist = "never connected"
  /\ call = [t \in Threads \cup Callers |-> Idle]
  /\ last = [t |-> 0, op |-> "none", exc |-> "", val |-> 0]
  /\ returned = <<>>
  /\ calls = <<>>
  /\ adds = [cb \in Callbacks |-> 0]

NextConstruct ==
  \/ \E reachable \in BOOLEAN : FromPort("c1", 1, reachable)
  \/ \E reachable \in BOOLEAN : FromSocketFile("c1", 1, reachable)
  \/ (\A d \in Controllers : ~Constructed(d)) /\ Construct("c1")
  \/ Constructed("c1") /\ BC_get_socket("c1") = TheSocket /\ Construct("c2")
  \/ \E c \in Controllers : IsAlive(c, 1)
  \/ \E c \in Controllers : Connect(c, 1)
  \/ \E c \in Controllers : Close(c, 1)
  \/ \E c \in Controllers : RecvCall(c, 1)
  \/ RecvFail(1)
  \/ \E c \in Controllers : SendCall(c, 1, 1, MaxTraffic)
  \/ SendWrite(1)
  \/ \E c \in Controllers : MakeSocket(c, 1)
  \/ \E c \in Controllers : AddListener(c, 1, "cb1")

ConstructSpec == InitConstruct /\ [][NextConstruct]_vars

\* Readers and writers on one connected socket.  The write a send() is at is
\* scheduled eventually (it blocks only as long as the transport's write
\* does); whether a message ever arrives for a reader is left open.
NextDuplex ==
  \/ \E t \in Callers : RecvCall("c1", t)
  \/ \E t \in Callers : RecvReturn(t)
  \/ \E t \in Callers : SendCall("c1", t, 1, MaxTraffic)
  \/ \E t \in Callers : SendWrite(t)
  \/ Arrive(MaxTraffic)

DuplexSpec == InitRecv /\ [][NextDuplex]_vars /\ \A t \in Callers : WF_vars(SendWrite(t))

\* ------------------------------------------------------------ the claims
Controller(c) == Constructed(c) /\ BC_get_socket(c) = TheSocket

\* C1: is_alive() answers true exactly in the states after a successful
\* connect() and before the next close() or transport failure, and false in
\* every other state (never connected, connect failed, closed, failed); it
\* changes nothing and never fails.
C1_IsAliveReflectsLifecycle ==
  /\ \A c \in Controllers : Controller(c) =>
        /\ BC_is_alive(c, sys).out = Bool(hist = "connected")
        /\ BC_is_alive(c, sys).st = sys
  /\ last.op = "is_alive" =>
        last.exc = "" /\ last.val = (IF hist = "connected" THEN 1 ELSE 0)

\* is_alive() has answered false after a transport failure
C1_Witness == last.op = "is_alive" /\ last.val = 0 /\ hist = "failed"

\* C2: connect() on a connected socket fails with AlreadyConnectedError and
\* leaves the connection as it is (flag, transport handle, everything else);
\* in every reachable state at most one transport handle is open, the one the
\* socket holds.
C2_ConnectWhileConnected ==
  /\ [](sys.open = IF sys.alive THEN {sys.handle} ELSE {})
  /\ [][\A c \in Controllers, t \in Callers :
          sys.alive /\ Connect(c, t) =>
            /\ last'.t = t /\ last'.op = "connect"
            /\ last'.exc = AlreadyConnectedError
            /\ sys' = sys]_vars

\* a connect() has failed with AlreadyConnectedError, the connection is live
C2_Witness ==
  /\ last.op = "connect" /\ last.exc = AlreadyConnectedError
  /\ sys.alive /\ sys.handle \in sys.open

\* C3: send() or recv() called while the socket is not connected ends in that
\* step with ConnectionClosedError: the caller is not left waiting, the
\* socket, the transport and the listeners' counts are unchanged.
C3_ClosedFailsFast ==
  [][\A c \in Controllers, t \in Callers :
       ~sys.alive /\ (RecvCall(c, t) \/ SendCall(c, t, 1, MaxTraffic)) =>
         /\ last'.t = t /\ last'.op \in {"send", "recv"}
         /\ last'.exc = ConnectionClosedError
         /\ call'[t] = Idle
         /\ sys' = sys]_vars

\* a recv() on the never-connected socket has failed with ConnectionClosedError
C3_Witness ==
  last.op = "recv" /\ last.exc = ConnectionClosedError /\ hist = "never connected"

\* what a step adds to the count of `state` notifications of callback cb
Told(cb, state) == sys'.notes[cb][state] - sys.notes[cb][state]

\* C4: close() is idempotent.  A close() of a connected socket disconnects it
\* and tells each registered listener "closed" once; every further close(),
\* and a close() of a never-connected socket, changes nothing, tells nobody
\* and raises nothing.
C4_CloseIdempotent ==
  [][\A c \in Controllers, t \in Callers :
       Close(c, t) =>
         /\ last'.t = t /\ last'.op = "close" /\ last'.exc = "" /\ last'.val = 0
         /\ ~sys'.alive
         /\ IF sys.alive
            THEN \A cb \in Callbacks :
                   /\ Told(cb, "closed") = IF cb \in Registered(sys) THEN 1 ELSE 0
                   /\ Told(cb, "connected") = 0
            ELSE sys' = sys]_vars

\* a second close() in a row has returned and the one listener, registered
\* throughout the one connection, was told "closed" once
C4_Witness ==
  /\ last.op = "close" /\ last.exc = "" /\ hist = "closed twice"
  /\ sys.opened = 1 /\ adds["cb1"] > 0
  /\ sys.notes["cb1"]["closed"] = 1

\* C5: registrations are unique per callback.  However often a callback was
\* added, it is registered once: one removal unregisters it, and while it is
\* registered each transition tells it once.  Removing a callback that is not
\* registered changes nothing and raises nothing.
C5_ListenersUnique ==
  /\ [](Registered(sys) = {cb \in Callbacks : adds[cb] > 0})
  /\ [][/\ \A c \in Controllers, t \in Callers, cb \in Callbacks :
            RemoveListener(c, t, cb) =>
              /\ last'.op = "remove_status_listener" /\ last'.exc = ""
              /\ cb \notin Registered(sys')
              /\ Registered(sys') = Registered(sys) \ {cb}
              /\ cb \notin Registered(sys) => sys' = sys
        /\ \A cb \in Callbacks :
            /\ Told(cb, "closed") =
                 IF cb \in Registered(sys) /\ sys.alive /\ ~sys'.alive THEN 1 ELSE 0
            /\ Told(cb, "connected") =
                 IF cb \in Registered(sys) /\ ~sys.alive /\ sys'.alive THEN 1 ELSE 0]_vars

\* cb1 was added twice and the connect() that followed told it once
C5_Witness ==
  /\ adds["cb1"] = 2
  /\ last.op = "connect" /\ last.exc = ""
  /\ sys.notes["cb1"]["connected"] = 1 /\ sys.notes["cb1"]["closed"] = 0

\* thread t has returned from recv() with ConnectionClosedError
ReleasedClosed(t) ==
  /\ call[t] = Idle
  /\ last.t = t /\ last.op = "recv" /\ last.exc = ConnectionClosedError

\* thread t waits in recv()
Waiting(t) == call[t].op = "recv"

\* C6: a read failure during a recv() on a connected socket disconnects the
\* socket and tells each registered listener "closed" once; every other
\* thread waiting in recv() at that moment eventually returns with
\* ConnectionClosedError.
C6_ReadFailureReleasesReaders ==
  /\ [][\A t \in Threads :
          RecvFail(t) =>
            /\ ~sys'.alive /\ sys'.open = {}
            /\ last'.t = t /\ last'.op = "recv"
            /\ last'.exc \in {TransportError, ConnectionClosedError}
            /\ \A cb \in Callbacks :
                 /\ Told(cb, "closed") = IF cb \in Registered(sys) THEN 1 ELSE 0
                 /\ Told(cb, "connected") = 0]_vars
  /\ \A t \in Threads : (hist = "failed" /\ Waiting(t)) ~> ReleasedClosed(t)

\* thread 1's read has failed while threads 2 and 3 wait in recv()
C6_Witness ==
  /\ hist = "failed" /\ last.t = 1 /\ last.op = "recv" /\ last.exc = TransportError
  /\ sys.notes["cb1"]["closed"] = 1
  /\ Waiting(2) /\ Waiting(3)

\* C7: when close() returns while other threads wait in recv(), each of them
\* eventually returns with ConnectionClosedError (a reader that can return is
\* scheduled eventually), and a reader whose connection was closed returns
\* nothing else: no message after the close.
C7_CloseReleasesReaders ==
  /\ \A t \in Threads : (last.op = "close" /\ Waiting(t)) ~> ReleasedClosed(t)
  /\ [][\A t \in Threads :
          Waiting(t) /\ (~sys.alive \/ sys.handle # call[t].h) /\ call'[t] = Idle =>
            ReleasedClosed(t)' /\ returned' = returned]_vars

\* thread 1's close() has returned while threads 2 and 3 wait in recv()
C7_Witness ==
  /\ last.t = 1 /\ last.op = "close" /\ ~sys.alive
  /\ Waiting(2) /\ Waiting(3)

Elems(q) == {q[i] : i \in 1 .. Len(q)}
Increasing(q) == \A i, j \in 1 .. Len(q) : i < j => q[i] < q[j]

\* C10: with concurrent readers every message that arrived is returned by
\* one recv() at most and never twice, messages are handed out in arrival
\* order, and a message is dropped only by the connection going down: while
\* a reader waits on the open connection the oldest message is eventually
\* returned.
C10_EachMessageOnce ==
  /\ [](/\ Increasing(returned \o sys.inbox)
        /\ Elems(returned) \cup Elems(sys.inbox) \cup sys.lost = 1 .. sys.arrived
        /\ (Elems(returned) \cup Elems(sys.inbox)) \cap sys.lost = {})
  /\ [][sys'.lost # sys.lost => sys.alive /\ ~sys'.alive]_vars
  /\ \A m \in 1 .. MaxArrive :
       (/\ sys.inbox # <<>> /\ Head(sys.inbox) = m
        /\ \E t \in Threads : Waiting(t) /\ call[t].h = sys.handle)
         ~> (m \in Elems(returned) \cup sys.lost)

\* message 1 went to thread 1 alone while threads 2 and 3 wait for the next
C10_Witness ==
  /\ returned = <<1>> /\ last.t = 1 /\ last.op = "recv" /\ last.val = 1
  /\ sys.alive /\ Waiting(2) /\ Waiting(3)

\* C8: the controller is a pure delegation layer.  In every state a sequence
\* of its operations reaches, each operation called on the controller gives
\* the outcome (value or error) and the resulting socket state that the same
\* operation called on the owned socket gives, for every argument; and the
\* controller's only attribute is the reference to that socket.
C8_PureDelegation ==
  \A c \in Controllers : Constructed(c) =>
    /\ DOMAIN attrs[c] = {"_socket"}
    /\ BC_get_socket(c) = TheSocket
    /\ BC_is_alive(c, sys) = Sock_is_alive(sys)
    /\ BC_close(c, sys) = Sock_close(sys)
    /\ \A reachable \in BOOLEAN :
         BC_connect(c, sys, reachable) = Sock_connect(sys, reachable)
    /\ \A cb \in Callbacks :
         /\ BC_remove_status_listener(c, sys, cb) = Sock_remove_status_listener(sys, cb)
         /\ \A spawn \in BOOLEAN :
              BC_add_status_listener(c, sys, cb, spawn)
                = Sock_add_status_listener(sys, cb, spawn)
    /\ \A h \in 0 .. sys.opened, ev \in {"data", TransportError, ConnectionClosedError} :
         BC_recv(c, sys, h, ev) = Sock_recv(sys, h, ev)
    /\ \A t \in Threads :
         /\ \A len \in 1 .. MaxLen, raw \in BOOLEAN :
              BC_send(c, sys, t, Len(calls) + 1, len, raw)
                = Sock_send(sys, t, Len(calls) + 1, len, raw)
         /\ \A ok \in BOOLEAN :
              call[t].op = "send" =>
                BC_send_write(c, sys, t, call[t].data, ok)
                  = Sock_send_write(sys, t, call[t].data, ok)

\* a sequence through connect, send, recv, close, connect again and the
\* listener operations has run
C8_Witness ==
  /\ last.op = "remove_status_listener"
  /\ sys.alive /\ sys.opened = 2
  /\ sys.notes["cb1"]["closed"] = 1
  /\ returned # <<>> /\ sys.wire # <<>>

\* the bytes on the wire that belong to send() number id
Segment(id) == SelectSeq(sys.wire, LAMBDA b : b[1] = id)
IsPrefix(p, q) == Len(p) <= Len(q) /\ \A i \in 1 .. Len(p) : p[i] = q[i]
Written(id) == Format(id, calls[id][1], calls[id][2])

\* C9: concurrent send() calls are serialized.  The bytes on the wire are
\* grouped by message and the messages follow each other in the order of
\* their send() calls; what is written of a message is a prefix of it, and a
\* message is complete before the first byte of the next.
C9_WritesSerialized ==
  /\ \A i \in 1 .. Len(sys.wire) - 1 : sys.wire[i][1] <= sys.wire[i + 1][1]
  /\ \A id \in 1 .. Len(calls) : IsPrefix(Segment(id), Written(id))
  /\ \A i \in 1 .. Len(sys.wire) - 1 :
       sys.wire[i][1] < sys.wire[i + 1][1] =>
         Segment(sys.wire[i][1]) = Written(sys.wire[i][1])

\* two send() calls are in flight: the first has written part of its message,
\* the second waits behind it
C9_Witness ==
  /\ Len(sys.sendq) = 2
  /\ Len(sys.wire) = 1 /\ Len(Written(1)) = 2
  /\ \A t \in Threads : t \in Elems(sys.sendq) => call[t].op = "send"

\* no registered inline callback is one that never returns
NoInlineHang(s) ==
  \A cb \in Registered(s) : ~(s.listeners[cb] = "inline" /\ s.behaviour[cb] = "hangs")

\* C11: a status listener's failure never leaves close(), connect() or a
\* recv() that detected a disconnect, and does not stop the transition.  When
\* no inline callback hangs, the call ends in its step with its own outcome
\* (never the callback's error), the flag holds the new state, the transport
\* is closed or opened as the transition requires, and every registered
\* listener is told the transition once, those after a failing one included.
C11_ListenerFailureIsolated ==
  [][(NoInlineHang(sys) /\ (Connect("c1", 1) \/ Close("c1", 1) \/ RecvFail(1))) =>
       /\ call'[1] = Idle /\ last'.t = 1
       /\ last'.exc \in {"", ConnectionError, AlreadyConnectedError,
                         TransportError, ConnectionClosedError}
       /\ last'.op = "close" => last'.exc = "" /\ ~sys'.alive
       /\ last'.op = "recv" => last'.exc # "" /\ ~sys'.alive
       /\ last'.op = "connect" /\ last'.exc = "" => sys'.alive /\ ~sys.alive
       /\ last'.op = "connect" /\ last'.exc # "" => sys' = sys
       /\ sys'.open = (IF sys'.alive THEN {sys'.handle} ELSE {})
       /\ \A cb \in Callbacks :
            /\ Told(cb, "closed") =
                 IF cb \in Registered(sys) /\ sys.alive /\ ~sys'.alive THEN 1 ELSE 0
            /\ Told(cb, "connected") =
                 IF cb \in Registered(sys) /\ ~sys.alive /\ sys'.alive THEN 1 ELSE 0]_vars

\* close() has returned normally: inline cb1, whose callback raises, was told
\* "closed" and failed, and cb2 after it was told too
C11_Witness ==
  /\ last.op = "close" /\ last.exc = "" /\ ~sys.alive
  /\ sys.listeners["cb1"] = "inline" /\ sys.behaviour["cb1"] = "raises"
  /\ sys.listeners["cb2"] = "inline"
  /\ sys.notes["cb1"]["closed"] = 1 /\ sys.notes["cb2"]["closed"] = 1

\* C12 as amended: the endpoint-by-address constructor for a port with no
\* listener fails with the transport's ConnectionError: no controller is
\* returned, nothing changes, nobody is notified.  For a port with a listener
\* it returns a connected controller, and neither constructor exchanges
\* anything on the transport.  On a disconnected controller whose endpoint has
\* no listener, connect() fails with ConnectionError, is_alive() is false
\* before and after, and no status listener is notified.
C12_ConstructorConnects ==
  /\ [][/\ (FromPort("c1", 1, FALSE) \/ FromSocketFile("c1", 1, FALSE)) =>
             /\ last'.op \in {"from_port", "from_socket_file"}
             /\ last'.exc = ConnectionError
             /\ ~Constructed("c1")' /\ sys' = sys
        /\ (FromPort("c1", 1, TRUE) \/ FromSocketFile("c1", 1, TRUE)) =>
             /\ last'.exc = "" /\ Constructed("c1")'
             /\ sys'.alive /\ sys'.open = {sys'.handle} /\ sys'.get_self = "c1"
             /\ sys'.wire = <<>> /\ sys'.arrived = 0 /\ sys'.notes = sys.notes
        /\ \A c \in Controllers :
             Connect(c, 1) /\ last'.exc = ConnectionError =>
               /\ BC_is_alive(c, sys).out = Bool(FALSE)
               /\ BC_is_alive(c, sys').out = Bool(FALSE)
               /\ sys' = sys]_vars
  /\ [](\A c \in Controllers : Controller(c) /\ ~sys.alive =>
            /\ BC_connect(c, sys, FALSE).out = Raise(ConnectionError)
            /\ BC_connect(c, sys, FALSE).st = sys)

\* from_port has returned a controller, which was closed, and the connect()
\* that followed found no listener at the port; cb1 saw the close only
C12_Witness ==
  /\ last.op = "connect" /\ last.exc = ConnectionError
  /\ Constructed("c1") /\ ~sys.alive /\ sys.opened = 1
  /\ sys.notes["cb1"]["closed"] = 1 /\ sys.notes["cb1"]["connected"] = 0

\* C12 as claimed: from_port for a port with no listener returns a controller
\* in the disconnected state, and nothing is exchanged or notified
C12_Original ==
  [][FromPort("c1", 1, FALSE) =>
       /\ last'.op = "from_port" /\ last'.exc = ""
       /\ Constructed("c1")' /\ ~sys'.alive
       /\ sys'.wire = <<>> /\ sys'.notes = sys.notes]_vars

\* C13: every CONNECTED to CLOSED transition tells each registered listener
\* "closed" exactly once, under every interleaving of close(), send() and
\* recv() of concurrent callers.  A step tells a listener "closed" once if it
\* takes the connection down and not at all otherwise; the step that takes it
\* down leaves no transport open; a call that finds the connection already
\* down (a close(), or a send()/recv() that lost the race) tells nobody; so
\* the listener's count is the number of connections that ended.
C13_ClosedNotifiedOnce ==
  /\ [](\A cb \in Registered(sys) :
           sys.notes[cb]["closed"] = sys.opened - Cardinality(sys.open))
  /\ [][/\ \A cb \in Callbacks :
             Told(cb, "closed") =
               IF cb \in Registered(sys) /\ sys.alive /\ ~sys'.alive THEN 1 ELSE 0
        /\ sys.alive /\ ~sys'.alive => sys'.open = {} /\ sys'.opened = sys.opened
        /\ \A t \in Callers :
             (~sys.alive /\ (Close("c1", t) \/ SendWrite(t) \/ RecvReturn(t))) =>
               /\ sys'.notes = sys.notes /\ ~sys'.alive
               /\ last'.t = t
               /\ last'.exc = (IF last'.op = "close" THEN "" ELSE ConnectionClosedError)]_vars

\* a send() was writing when the other thread's close() took the connection
\* down; its next write found the connection closed and cb1 was told once
C13_Witness ==
  /\ last.op = "send" /\ last.exc = ConnectionClosedError
  /\ Len(sys.wire) = 1 /\ hist = "closed"
  /\ sys.opened = 1 /\ sys.notes["cb1"]["closed"] = 1

\* C14: when the write of a send() on a connected socket fails, send() ends
\* with TransportError, the socket is disconnected (is_alive() false, a later
\* send() or recv() fails with ConnectionClosedError) and each registered
\* listener is told "closed" once.  The failure is not swallowed, although a
\* send() that succeeds returns no value.
C14_WriteFailureSurfaces ==
  /\ [](\A c \in Controllers, t \in Callers :
          (/\ Controller(c) /\ call[t].op = "send" /\ sys.alive
           /\ sys.sendq # <<>> /\ Head(sys.sendq) = t) =>
            LET res == BC_send_write(c, sys, t, call[t].data, FALSE) IN
              /\ res.out = Raise(TransportError)
              /\ ~res.st.alive /\ res.st.open = {}
              /\ BC_is_alive(c, res.st).out = Bool(FALSE)
              /\ \A cb \in Callbacks :
                   res.st.notes[cb]["closed"] - sys.notes[cb]["closed"]
                     = IF cb \in Registered(sys) THEN 1 ELSE 0
              /\ \A h \in 0 .. sys.opened :
                   BC_recv(c, res.st, h, "data").out = Raise(ConnectionClosedError)
              /\ \A raw \in BOOLEAN :
                   BC_send(c, res.st, t, Len(calls) + 1, 1, raw).out
                     = Raise(ConnectionClosedError))
  /\ [][\A t \in Callers :
          SendWrite(t) =>
            /\ sys.alive /\ ~sys'.alive =>
                 /\ last'.t = t /\ last'.op = "send" /\ last'.exc = TransportError
                 /\ call'[t] = Idle
            /\ call'[t] = Idle /\ last'.exc = "" => last'.val = 0 /\ sys'.alive]_vars

\* a send() has ended with TransportError and cb1 was told of the closure
C14_Witness ==
  /\ last.op = "send" /\ last.exc = TransportError
  /\ ~sys.alive /\ hist = "failed"
  /\ sys.opened = 1 /\ sys.notes["cb1"]["closed"] = 1

\* C15: a closed socket can be re-armed.  After a close() or a transport
\* failure, a connect() that reaches the endpoint succeeds: is_alive() is
\* true, one fresh transport is open, each registered listener is told
\* "connected" once, recv() and send() are valid again.  The listeners stay
\* registered through close and connect, and each further cycle tells them
\* "connected" once and "closed" once.
C15_Rearm ==
  /\ [](\A c \in Controllers : Controller(c) /\ ~sys.alive =>
          LET res == BC_connect(c, sys, TRUE) IN
            /\ res.out = None /\ res.st.alive
            /\ BC_is_alive(c, res.st).out = Bool(TRUE)
            /\ BC_recv(c, res.st, res.st.handle, "data").out = Blocked
            /\ \A t \in Callers, raw \in BOOLEAN :
                 BC_send(c, res.st, t, Len(calls) + 1, 1, raw).out = Blocked)
  /\ [][/\ \A c \in Controllers, t \in Callers :
             (Connect(c, t) /\ last'.exc = "") =>
               /\ ~sys.alive /\ sys'.alive
               /\ sys'.handle \notin 0 .. sys.opened /\ sys'.open = {sys'.handle}
               /\ \A cb \in Callbacks :
                    Told(cb, "connected") = IF cb \in Registered(sys) THEN 1 ELSE 0
        /\ sys'.listeners = sys.listeners
        /\ \A cb \in Registered(sys) :
             /\ Told(cb, "connected") = IF ~sys.alive /\ sys'.alive THEN 1 ELSE 0
             /\ Told(cb, "closed") = IF sys.alive /\ ~sys'.alive THEN 1 ELSE 0]_vars

\* the second connect() has succeeded: cb1, registered throughout, was told
\* "connected" twice and "closed" once
C15_Witness ==
  /\ last.op = "connect" /\ last.exc = "" /\ sys.alive
  /\ sys.opened = 2 /\ sys.handle = 2
  /\ sys.notes["cb1"]["connected"] = 2 /\ sys.notes["cb1"]["closed"] = 1

\* C16: a thread waiting in recv() does not keep another thread's send() on
\* the same connected socket from completing.  While the connection is up the
\* writer at the head of the queue writes its next byte whenever the transport
\* accepts it, readers waiting or not; and a send() that is under way while
\* some recv() waits eventually returns.
C16_RecvDoesNotBlockSend ==
  /\ [](\A t \in Callers :
          (/\ call[t].op = "send" /\ sys.alive
           /\ sys.sendq # <<>> /\ Head(sys.sendq) = t) =>
            LET res == BC_send_write(call[t].c, sys, t, call[t].data, TRUE) IN
              /\ res.st.wire = Append(sys.wire, Head(call[t].data))
              /\ Len(res.data) = Len(call[t].data) - 1
              /\ res.out = (IF res.data = <<>> THEN None ELSE Blocked))
  /\ \A t \in Callers :
       (call[t].op = "send" /\ \E r \in Callers : Waiting(r)) ~> (call[t] = Idle)

\* thread 2's send() has returned normally while thread 1 still waits in the
\* recv() it called first
C16_Witness ==
  /\ Waiting(1) /\ returned = <<>>
  /\ last.t = 2 /\ last.op = "send" /\ last.exc = ""
  /\ sys.wire # <<>> /\ Len(calls) = 1

\* no inline listener other than cb has a callback that keeps its caller
OthersReturn(s, cb) ==
  \A o \in Callbacks \ {cb} : ~(s.listeners[o] = "inline" /\ s.behaviour[o] = "hangs")

\* the socket after c1.add_status_listener(cb), spawn left to its default
DefaultListener(cb) == BC_add_status_listener("c1", sys, cb, SpawnArg("omitted")).st

\* C17: for a listener registered in spawn mode, the default of
\* add_status_listener, close() and connect() complete their transition and
\* return without waiting for the callback.  Whatever the callback does
\* (return, raise, never return), after add_status_listener(cb) a close() or
\* connect() returns its own outcome with the flag set and cb told once, the
\* callback left to a task of its own; a close() or connect() step ends in
\* that step with no callback error; and a task that ends by its callback
\* raising reaches no caller.
C17_SpawnDoesNotHoldCaller ==
  /\ [](\A cb \in Callbacks :
          LET s == DefaultListener(cb)
              closed == BC_close("c1", s)
              connected == BC_connect("c1", s, TRUE) IN
            OthersReturn(s, cb) =>
              /\ closed.out = None /\ ~closed.st.alive
              /\ connected.out = (IF s.alive THEN Raise(AlreadyConnectedError) ELSE None)
              /\ connected.st.alive
              /\ s.alive =>
                   /\ closed.st.notes[cb]["closed"] = s.notes[cb]["closed"] + 1
                   /\ closed.st.tasks[cb] =
                        s.tasks[cb] + (IF s.behaviour[cb] = "ok" THEN 0 ELSE 1)
              /\ ~s.alive =>
                   /\ connected.st.notes[cb]["connected"] = s.notes[cb]["connected"] + 1
                   /\ connected.st.tasks[cb] =
                        s.tasks[cb] + (IF s.behaviour[cb] = "ok" THEN 0 ELSE 1))
  /\ [][/\ (/\ \A cb \in Registered(sys) : sys.listeners[cb] = "spawn"
            /\ (Close("c1", 1) \/ Connect("c1", 1))) =>
              /\ call'[1] = Idle /\ last'.t = 1
              /\ last'.exc \in {"", ConnectionError, AlreadyConnectedError}
              /\ last'.op = "close" => last'.exc = "" /\ ~sys'.alive
              /\ last'.op = "connect" /\ last'.exc = "" => sys'.alive
      /\ \A cb \in Callbacks : TaskEnd(cb) => last' = last /\ call' = call]_vars

\* close() has returned normally over a connected socket whose two listeners
\* are in spawn mode: cb1's callback never returns and its task is still
\* there, cb2's raised and its task is gone
C17_Witness ==
  /\ last.op = "close" /\ last.exc = "" /\ ~sys.alive /\ call[1] = Idle
  /\ sys.listeners["cb1"] = "spawn" /\ sys.behaviour["cb1"] = "hangs"
  /\ sys.notes["cb1"]["closed"] = 1 /\ sys.tasks["cb1"] = 1
  /\ sys.listeners["cb2"] = "spawn" /\ sys.behaviour["cb2"] = "raises"
  /\ sys.notes["cb2"]["closed"] = 1 /\ sys.tasks["cb2"] = 0

\* the socket but for its listener registry
Unregistered(s) == [s EXCEPT !.listeners = [cb \in Callbacks |-> "unregistered"]]

\* C18: add_status_listener and remove_status_listener succeed in every
\* connection state (never connected, connected, closed), change only the
\* listener registry, and invoke no listener.  In every state either call
\* returns nothing and leaves the socket as it was but for the entry of its
\* callback; and every such step of a caller ends with no error, the flag, the
\* transport handle and each listener's notifications as before.
C18_RegistryOnly ==
  /\ [](\A cb \in Callbacks, spawn \in BOOLEAN :
          LET added == BC_add_status_listener("c1", sys, cb, spawn)
              removed == BC_remove_status_listener("c1", sys, cb) IN
            /\ added.out = None /\ removed.out = None
            /\ added.st = [sys EXCEPT !.listeners[cb] = IF spawn THEN "spawn" ELSE "inline"]
            /\ removed.st = [sys EXCEPT !.listeners[cb] = "unregistered"])
  /\ [][\A cb \in Callbacks :
          (AddListener("c1", 1, cb) \/ RemoveListener("c1", 1, cb)) =>
            /\ call'[1] = Idle /\ last'.t = 1 /\ last'.exc = ""
            /\ last'.op \in {"add_status_listener", "remove_status_listener"}
            /\ Unregistered(sys') = Unregistered(sys)
            /\ sys'.alive = sys.alive /\ sys'.handle = sys.handle
            /\ sys'.notes = sys.notes /\ sys'.tasks = sys.tasks
            /\ hist' = hist
            /\ \A o \in Callbacks \ {cb} : sys'.listeners[o] = sys.listeners[o]
            /\ sys'.listeners[cb] =
                 (IF last'.op = "remove_status_listener" THEN "unregistered"
                  ELSE sys'.listeners[cb])
            /\ last'.op = "add_status_listener" => sys'.listeners[cb] # "unregistered"]_vars

\* add_status_listener(cb1) has returned on a socket that was connected and
\* closed: cb1 is registered, was told nothing, and the socket is still closed
C18_Witness ==
  /\ hist = "closed" /\ ~sys.alive /\ sys.handle = 0
  /\ last.op = "add_status_listener" /\ last.exc = ""
  /\ sys.listeners["cb1"] # "unregistered"
  /\ sys.notes["cb1"]["closed"] = 0 /\ sys.notes["cb1"]["connected"] = 0

\* C19: after a controller is constructed over a socket, the socket's
\* back-reference accessor (_get_self) resolves to the controller that owns
\* the socket, in every reachable state, a second controller constructed over
\* the same socket included: for each controller, the back-reference of the
\* socket its get_socket() returns is that controller.
C19_BackReferenceIsOwner ==
  \A c \in Controllers :
    (Constructed(c) /\ BC_get_socket(c) = TheSocket) => sys.get_self = c

\* C20: _make_socket forwards to the owned socket that send, recv, connect,
\* close and get_socket use, the one the constructor stored: on a constructed
\* controller it reaches that socket's _make_socket and does not fail on a
\* missing attribute, and get_socket() returns the constructor-supplied
\* socket after any sequence of operations.
C20_MakeSocketReachesSocket ==
  /\ \A c \in Controllers :
       Constructed(c) =>
         /\ BC_get_socket(c) = TheSocket
         /\ BC_make_socket(c, sys) = Discard(Sock_make_socket(sys))
  /\ last.op = "_make_socket" => last.exc = ""
====
